---- MODULE Spec2Model ----
(***************************************************************************)
(* A model of docker-job-dispatcher: the dispatcher service (POST /job,    *)
(* GET /job/{id}), the scheduler loop, the cleaner loop and the container  *)
(* engine they share.  The engine is the only store of container state;    *)
(* every suspension point of the program (an awaited engine call) is one   *)
(* step of the model, so engine activity may interleave between the calls  *)
(* of one handler or one tick.                                             *)
(***************************************************************************)
EXTENDS Integers, Sequences, FiniteSets, TLC

VARIABLES
    config,      \* Cli: max_concurrent and keep_exited_for, each an Option
    clock,       \* engine wall clock, in seconds
    containers,  \* engine state: container name -> container or NoContainer
    inflight,    \* create_job handlers suspended at the inline start, per name
    posted,      \* names a POST /job answered 201/200 for, since their removal
    sched,       \* scheduler::cycle: position, error counter, tick locals
    cleaner,     \* cleaner::cycle: position, error counter, tick locals
    process,     \* "running", or "failed"/"exited" once main returned Err/Ok
    metrics,     \* metrics_service::run: position, the jobs family, its reads
    main,        \* main: the HTTP server's state and the error main returned
    last         \* what the step just taken did: the engine call or response

vars == <<config, clock, containers, inflight, posted, sched, cleaner, process,
          metrics, main, last>>

----------------------------------------------------------------------------
(* Bounds of the model *)

\* The engine clock runs over 0..MaxClock.
MaxClock == 1

\* At most this many create_job handlers wait at the inline start per name.
MaxInflight == 1

\* The metrics pump consumes at most this many events of the stream.
MaxEvents == 2

----------------------------------------------------------------------------
(* Values *)

\* Option<T>: None is the empty sequence, Some(x) the one-element sequence.
None == << >>

Some(x) == << x >>

IsSome(o) == Len(o) > 0

Unwrap(o) == o[1]

\* Container names, without the engine's leading "/".  A name is a sequence
\* of tokens so that the leading "/" of a listed name can be stripped.
Names == { <<"a">>, <<"b">>, <<"c">> }

\* The name as a listing shows it: prefixed with "/".
EngineName(n) == <<"/">> \o n

\* The namespace this instance is configured with, and another one.
Namespace == "default"

OtherNamespace == "other"

\* concat!(env!("CARGO_PKG_NAME"), ".namespace")
JOB_LABEL_KEY == "docker-job-dispatcher.namespace"

\* A second label key, for labels a manifest brings along.
AppKey == "app"

EmptyLabels == [k \in {} |-> ""]

\* Statuses of a container in the engine.
ActiveStatuses == {"restarting", "running"}

Statuses == {"created", "exited"} \cup ActiveStatuses

\* Instants of time are counted in fractions of a second, SubSecond of them
\* to the second; the clock counts whole seconds.
SubSecond == 2

Instant(sec, frac) == sec * SubSecond + frac

\* DateTime::timestamp(): the whole seconds of an instant.
timestamp(t) == t \div SubSecond

\* The fractions of a second at which something may happen: at the full
\* second only, or at any fraction.
Whole == { 0 }

Fractions == 0..(SubSecond - 1)

\* finished_at of a container that never exited: the engine's zero time.
ZeroTime == -1000

NoContainer == [status |-> "absent"]

Exists(cs, n) == cs[n].status # "absent"

\* What the step just taken did, when it did nothing observable.
NoEvent == [op |-> "none"]

----------------------------------------------------------------------------
(* api_error.rs: the status each APIError constructor answers with *)

bad_request == 400

not_found == 404

bad_gateway == 502

\* HttpResponse::Created() and HttpResponse::Ok()
Created == 201

Ok == 200

----------------------------------------------------------------------------
(* docker.rs: the engine client.  `up` says whether the engine answers this *)
(* call at all; a call to an engine that does not answer is an Err.         *)

\* Whether a container carries the grouping label of `namespace`: the label
\* filter "<key>=<namespace>" of every listing.
HasJobLabel(c, namespace) ==
    /\ JOB_LABEL_KEY \in DOMAIN c.labels
    /\ c.labels[JOB_LABEL_KEY] = namespace

insert_job_label_keeps_caller_value(c, namespace) ==
    LET labels == IF IsSome(c.labels) THEN Unwrap(c.labels) ELSE EmptyLabels
    IN  [c EXCEPT !.labels = Some(
            [k \in DOMAIN labels \cup {JOB_LABEL_KEY} |->
                IF k \in DOMAIN labels THEN labels[k] ELSE namespace])]

\* labels.unwrap_or_default(), then insert(key, namespace), which overwrites.
insert_job_label(c, namespace) ==
    LET labels == IF IsSome(c.labels) THEN Unwrap(c.labels) ELSE EmptyLabels
    IN  [c EXCEPT !.labels = Some(
            [k \in DOMAIN labels \cup {JOB_LABEL_KEY} |->
                IF k = JOB_LABEL_KEY THEN namespace ELSE labels[k]])]

\* The engine's create_container: 409 when the name is taken by any
\* container, whatever its labels; else a new container in status created.
EngineCreate(cs, name, cfg, now) ==
    IF Exists(cs, name)
    THEN [code |-> 409, cs |-> cs]
    ELSE [code |-> 201,
          cs |-> [cs EXCEPT ![name] =
                    [labels |-> IF IsSome(cfg.labels) THEN Unwrap(cfg.labels)
                                ELSE EmptyLabels,
                     status |-> "created",
                     created |-> now,
                     finished |-> ZeroTime]]]

create_conflict_is_error(up, cs, name, cfg, namespace, now) ==
    LET r == EngineCreate(cs, name, insert_job_label(cfg, namespace), now)
    IN  IF up /\ r.code = 201
        THEN [res |-> "Some", cs |-> r.cs]
        ELSE [res |-> "Err", cs |-> cs]

\* create: Ok(Some) when created, Ok(None) on 409, Err on any other failure.
create(up, cs, name, cfg, namespace, now) ==
    LET r == EngineCreate(cs, name, insert_job_label(cfg, namespace), now)
    IN  IF ~up THEN [res |-> "Err", cs |-> cs]
        ELSE IF r.code = 409 THEN [res |-> "None", cs |-> cs]
        ELSE [res |-> "Some", cs |-> r.cs]

\* start: by name alone, no label filter.  The engine starts a created or
\* exited container, answers 304 (not an error) for one already active and
\* 404 for a name it does not know.
start(up, cs, name) ==
    IF ~up \/ name \notin Names \/ ~Exists(cs, name)
    THEN [res |-> "Err", cs |-> cs]
    ELSE IF cs[name].status \in ActiveStatuses
    THEN [res |-> "Ok", cs |-> cs]
    ELSE [res |-> "Ok", cs |-> [cs EXCEPT ![name].status = "running"]]

\* get: list with the filters name "^/<name>$" and label "<key>=<namespace>",
\* limit 1.  For a name over the engine's alphabet the pattern matches that
\* name; names are unique in the engine, so at most one container matches.
get(up, cs, name, namespace) ==
    IF ~up THEN [res |-> "Err"]
    ELSE IF name \in Names /\ Exists(cs, name) /\ HasJobLabel(cs[name], namespace)
    THEN [res |-> "Some", summary |-> cs[name]]
    ELSE [res |-> "None"]

\* inspect: by name alone, no label filter; 404 for an unknown name.
inspect(up, cs, name) ==
    IF ~up \/ name \notin Names \/ ~Exists(cs, name)
    THEN [res |-> "Err"]
    ELSE [res |-> "Ok", container |-> cs[name]]

\* remove: by name alone, no label filter and no force: the engine refuses
\* an unknown name (404) and a container that is active (409).
remove(up, cs, name) ==
    IF ~up \/ name \notin Names \/ ~Exists(cs, name)
       \/ cs[name].status \in ActiveStatuses
    THEN [res |-> "Err", cs |-> cs]
    ELSE [res |-> "Ok", cs |-> [cs EXCEPT ![name] = NoContainer]]

\* The names a listing matches: the label filter and the status filter.
Listed(cs, namespace, statuses) ==
    { n \in Names : /\ Exists(cs, n)
                    /\ HasJobLabel(cs[n], namespace)
                    /\ cs[n].status \in statuses }

count_active_running_only(cs, namespace) ==
    Cardinality(Listed(cs, namespace, {"running"}))

\* count_active: the length of the listing with status restarting or running.
count_active(cs, namespace) ==
    Cardinality(Listed(cs, namespace, ActiveStatuses))

\* The names field of a ContainerSummary is an Option<Vec<String>>: the
\* engine's names, or an empty list, or nothing.
ShownNames(n) == { Some(<<EngineName(n)>>), Some(<< >>), None }

Summary(cs, n, names) ==
    [id |-> n, names |-> names, created |-> cs[n].created, status |-> cs[n].status]

\* All sequences that list every element of S once.
Orders(S) ==
    { f \in [1..Cardinality(S) -> S] : \A i, j \in DOMAIN f : f[i] = f[j] => i = j }

\* Every response the engine may give to a listing, before it is sorted.
Listings(cs, namespace, status) ==
    LET L == Listed(cs, namespace, {status})
        Shown == { f \in [L -> UNION {ShownNames(n) : n \in L}] :
                     \A n \in L : f[n] \in ShownNames(n) }
    IN  { [i \in DOMAIN o |-> Summary(cs, o[i], f[o[i]])] :
            o \in Orders(L), f \in Shown }

IsSortedByCreated(l) ==
    \A i, j \in DOMAIN l : i < j => l[i].created <= l[j].created

get_by_status_unsorted(cs, namespace, status) ==
    Listings(cs, namespace, status)

\* get_by_status: the listing, then sort_unstable_by_key(created): any order
\* that is ascending in created.
get_by_status(cs, namespace, status) ==
    { l \in Listings(cs, namespace, status) : IsSortedByCreated(l) }

get_pending(cs, namespace) == get_by_status(cs, namespace, "created")

get_exited(cs, namespace) == get_by_status(cs, namespace, "exited")

----------------------------------------------------------------------------
(* main.rs: the startup mode *)

containers_can_start_at_zero ==
    ~IsSome(config.max_concurrent) \/ Unwrap(config.max_concurrent) = 0

\* containers_can_start = cli.max_concurrent.is_none()
containers_can_start == ~IsSome(config.max_concurrent)

main_tasks_ignores_zero(max_concurrent, keep_exited_for) ==
    [scheduler |-> IsSome(max_concurrent), cleaner |-> IsSome(keep_exited_for),
     server |-> TRUE, metrics |-> TRUE]

\* The match on (max_concurrent, keep_exited_for): which loops are spawned
\* beside the HTTP server.  The arms are tried in order.  The metrics pump
\* is spawned before the match and every arm runs core_task, the HTTP
\* server.
main_tasks(max_concurrent, keep_exited_for) ==
    IF IsSome(max_concurrent) /\ IsSome(keep_exited_for) /\ Unwrap(max_concurrent) > 0
    THEN [scheduler |-> TRUE, cleaner |-> TRUE, server |-> TRUE, metrics |-> TRUE]
    ELSE IF IsSome(max_concurrent) /\ ~IsSome(keep_exited_for) /\ Unwrap(max_concurrent) > 0
    THEN [scheduler |-> TRUE, cleaner |-> FALSE, server |-> TRUE, metrics |-> TRUE]
    ELSE IF IsSome(keep_exited_for)
    THEN [scheduler |-> FALSE, cleaner |-> TRUE, server |-> TRUE, metrics |-> TRUE]
    ELSE [scheduler |-> FALSE, cleaner |-> FALSE, server |-> TRUE, metrics |-> TRUE]

SchedulerLaunched == main_tasks(config.max_concurrent, config.keep_exited_for).scheduler

CleanerLaunched == main_tasks(config.max_concurrent, config.keep_exited_for).cleaner

ServerLaunched == main_tasks(config.max_concurrent, config.keep_exited_for).server

MetricsLaunched == main_tasks(config.max_concurrent, config.keep_exited_for).metrics

----------------------------------------------------------------------------
(* docker_service.rs: the dispatcher *)

\* What jq::first_result and the two deserializations make of a request:
\* no output, a runtime error, a value that is no CreateContainerOptions or
\* no Config, or a manifest with a Name and optional Labels.
FilterFailures ==
    { [kind |-> "no_output"], [kind |-> "runtime_error"],
      [kind |-> "bad_options"], [kind |-> "bad_config"] }

Manifest(n, l) == [kind |-> "manifest", Name |-> n, labels |-> l]

\* Manifests without labels.
PlainManifests == { Manifest(n, None) : n \in Names }

\* Manifests with the labels a caller may supply: none, an empty map, a
\* value of its own for the grouping key, another label, or both.
CallerLabels ==
    { None,
      Some(EmptyLabels),
      Some([k \in {JOB_LABEL_KEY} |-> OtherNamespace]),
      Some([k \in {AppKey} |-> "x"]),
      Some([k \in {JOB_LABEL_KEY, AppKey} |->
              IF k = JOB_LABEL_KEY THEN OtherNamespace ELSE "x"]) }

LabelledManifests == { Manifest(n, l) : n \in Names, l \in CallerLabels }

\* The four map_err of the filter and deserialization steps.
FilterErrorStatus == bad_request

\* docker::create(..).map_err(|e| APIError::bad_request(..))
CreateErrorStatus == bad_request

StartErrorStatus_bad_request == bad_request

StartErrorStatus_created == Created

\* docker::start(..).map_err(APIError::bad_gateway)
StartErrorStatus == bad_gateway

\* HttpResponse::Created() when create returned Some
CreatedStatus == Created

PreExistingStatus_created == Created

\* HttpResponse::Ok() when create returned None
PreExistingStatus == Ok

\* The create_job response (or, for op "create", its suspension at the
\* inline start) as the step records it: what the filter, create and start
\* gave, whether the engine answered, and the container that held the name
\* before the call.
PostEvent(op, out, up, create_res, start_res, status) ==
    [op |-> op, filter |-> "ok", name |-> out.Name, given |-> out.labels,
     up |-> up, held |-> containers[out.Name],
     create |-> create_res, start |-> start_res, status |-> status,
     id |-> IF status \in {Created, Ok} THEN Some(out.Name) ELSE None]

\* create_job up to its first suspension after the create call: the filter,
\* the deserializations, docker::create and, unless the handler goes on to
\* the inline start, the response.
create_job(out, ups) ==
    /\ process = "running"
    /\ ServerLaunched
    /\ main.api = "serving"
    /\ IF out.kind # "manifest"
       THEN /\ last' = [op |-> "create_job", filter |-> out.kind,
                        create |-> "-", start |-> "-",
                        status |-> FilterErrorStatus, id |-> None]
            /\ UNCHANGED <<containers, inflight, posted>>
       ELSE \E up \in ups :
            LET r == create(up, containers, out.Name, [labels |-> out.labels],
                            Namespace, clock)
            IN  /\ containers' = r.cs
                /\ IF r.res = "Err"
                   THEN /\ last' = PostEvent("create_job", out, up, "Err", "-",
                                             CreateErrorStatus)
                        /\ UNCHANGED <<inflight, posted>>
                   ELSE IF r.res = "None"
                   THEN /\ last' = PostEvent("create_job", out, up, "None", "-",
                                             PreExistingStatus)
                        /\ posted' = posted \cup {out.Name}
                        /\ UNCHANGED inflight
                   ELSE IF containers_can_start
                   THEN /\ inflight[out.Name] < MaxInflight
                        /\ inflight' = [inflight EXCEPT ![out.Name] = @ + 1]
                        /\ last' = PostEvent("create", out, up, "Some", "-", 0)
                        /\ UNCHANGED posted
                   ELSE /\ last' = PostEvent("create_job", out, up, "Some", "-",
                                             CreatedStatus)
                        /\ posted' = posted \cup {out.Name}
                        /\ UNCHANGED inflight
    /\ UNCHANGED <<config, clock, sched, cleaner, process, metrics, main>>

\* create_job from the inline start to the response.
create_job_start(name, ups) ==
    /\ process = "running"
    /\ ServerLaunched
    /\ main.api = "serving"
    /\ inflight[name] > 0
    /\ inflight' = [inflight EXCEPT ![name] = @ - 1]
    /\ \E up \in ups :
        LET r == start(up, containers, name)
            status == IF r.res = "Err" THEN StartErrorStatus ELSE CreatedStatus
        IN  /\ containers' = r.cs
            /\ last' = [op |-> "create_job", filter |-> "ok", name |-> name,
                        up |-> up, target |-> containers[name],
                        create |-> "Some", start |-> r.res, status |-> status,
                        id |-> IF r.res = "Err" THEN None ELSE Some(name)]
            /\ posted' = IF r.res = "Err" THEN posted ELSE posted \cup {name}
    /\ UNCHANGED <<config, clock, sched, cleaner, process, metrics, main>>

\* get_job: 502 on an engine error, 404 when get returns None, else the
\* JobSummary with the requested id and the listed container's status.
get_job(id, ups) ==
    /\ process = "running"
    /\ ServerLaunched
    /\ main.api = "serving"
    /\ \E up \in ups :
        LET r == get(up, containers, id, Namespace)
        IN  last' = [op |-> "get_job", name |-> id, up |-> up,
                     asked |-> id \in posted,
                     status |-> IF r.res = "Err" THEN bad_gateway
                                ELSE IF r.res = "None" THEN not_found
                                ELSE Ok,
                     id |-> IF r.res = "Some" THEN Some(id) ELSE None,
                     job_status |-> IF r.res = "Some" THEN Some(r.summary.status)
                                    ELSE None]
    /\ UNCHANGED <<config, clock, containers, inflight, posted, sched,
                   cleaner, process, metrics, main>>

----------------------------------------------------------------------------
(* scheduler.rs *)

Min(a, b) == IF a < b THEN a ELSE b

Take_one_more(s, k) == SubSeq(s, 1, Min(k + 1, Len(s)))

\* .take(k)
Take(s, k) == SubSeq(s, 1, Min(k, Len(s)))

\* names.and_then(|ns| ns.into_iter().next())
FirstName(names) ==
    IF IsSome(names) /\ Len(Unwrap(names)) > 0
    THEN Some(Head(Unwrap(names)))
    ELSE None

\* name.strip_prefix('/').map(String::from).unwrap_or(name)
strip_prefix(name) ==
    IF Len(name) > 0 /\ Head(name) = "/" THEN Tail(name) ELSE name

\* .filter_map(|container| container.names ... .map(|name| strip_prefix(name)))
JobNames(summaries) ==
    LET Named(c) == IsSome(FirstName(c.names))
        kept == SelectSeq(summaries, Named)
    IN  [i \in DOMAIN kept |-> strip_prefix(Unwrap(FirstName(kept[i].names)))]

schedule_targets_filter_first(max_concurrent, active, pending) ==
    Take(JobNames(pending), max_concurrent - active)

schedule_targets_newest_first(max_concurrent, active, pending) ==
    JobNames(Take([i \in DOMAIN pending |-> pending[Len(pending) + 1 - i]],
                  max_concurrent - active))

\* schedule: the names start is called for: take(max_concurrent - active) of
\* the pending list, then the filter_map on names.
schedule_targets(max_concurrent, active, pending) ==
    JobNames(Take(pending, max_concurrent - active))

\* const MAX_ERRORS: u8 = 5 (scheduler.rs)
scheduler_MAX_ERRORS == 5

scheduler_cycle_no_reset(errors, ok) ==
    IF ok THEN [errors |-> errors, ret |-> "loop"]
    ELSE IF errors + 1 >= scheduler_MAX_ERRORS
    THEN [errors |-> errors + 1, ret |-> "Err"]
    ELSE [errors |-> errors + 1, ret |-> "loop"]

\* scheduler::cycle after one tick with result ok: the new error counter,
\* and whether the loop goes on or returns the error.
scheduler_cycle(errors, ok) ==
    IF ok THEN [errors |-> 0, ret |-> "loop"]
    ELSE IF errors + 1 >= scheduler_MAX_ERRORS
    THEN [errors |-> errors + 1, ret |-> "Err"]
    ELSE [errors |-> errors + 1, ret |-> "loop"]

\* The scheduler between two ticks.  streak is the number of failed ticks
\* since the last successful one (or since the loop began).
SchedIdle(errors, streak) ==
    [pc |-> "idle", errors |-> errors, streak |-> streak, active |-> 0,
     targets |-> << >>, todo |-> {}, results |-> << >>, failed |-> FALSE]

\* The end of a tick: cycle's bookkeeping.  A returned error completes the
\* task main selects on.
SchedEndTick(ok, ev) ==
    LET c == scheduler_cycle(sched.errors, ok)
        streak == IF ok THEN 0 ELSE sched.streak + 1
    IN  /\ sched' = IF c.ret = "Err"
                    THEN [SchedIdle(c.errors, streak) EXCEPT !.pc = "returned"]
                    ELSE SchedIdle(c.errors, streak)
        /\ last' = [ev EXCEPT !.tick = IF ok THEN "Ok" ELSE "Err"]

\* interval.tick(), then schedule up to the answer of count_active.
schedule_count(ups) ==
    /\ process = "running"
    /\ SchedulerLaunched
    /\ sched.pc = "idle"
    /\ \E up \in ups :
        LET active == count_active(containers, Namespace)
            ev == [op |-> "count_active", by |-> "scheduler", tick |-> "-",
                   up |-> up, active |-> active]
        IN  IF ~up THEN SchedEndTick(FALSE, ev)
            ELSE IF Unwrap(config.max_concurrent) > active
            THEN /\ sched' = [sched EXCEPT !.pc = "list", !.active = active]
                 /\ last' = ev
            ELSE SchedEndTick(TRUE, ev)
    /\ UNCHANGED <<config, clock, containers, inflight, posted, cleaner,
                   process, metrics, main>>

\* schedule from get_pending to the creation of the start futures.
schedule_list(ups) ==
    /\ process = "running"
    /\ sched.pc = "list"
    /\ \E up \in ups :
        IF ~up
        THEN SchedEndTick(FALSE, [op |-> "get_pending", by |-> "scheduler",
                                  tick |-> "-", up |-> FALSE])
        ELSE \E pending \in get_pending(containers, Namespace) :
            LET targets == schedule_targets(Unwrap(config.max_concurrent),
                                            sched.active, pending)
                ev == [op |-> "get_pending", by |-> "scheduler", tick |-> "-",
                       up |-> TRUE, active |-> sched.active,
                       pending |-> pending, targets |-> targets]
            IN  IF targets = << >>
                THEN SchedEndTick(TRUE, ev)
                ELSE /\ sched' = [sched EXCEPT !.pc = "start",
                                               !.targets = targets,
                                               !.todo = DOMAIN targets]
                     /\ last' = ev
    /\ UNCHANGED <<config, clock, containers, inflight, posted, cleaner,
                   process, metrics, main>>

join_all_fails_fast(todo, i, failed) == todo = {i} \/ failed

\* join_all(..).await completes when every start future has completed,
\* whether or not one of them failed.
join_all_done(todo, i, failed) == todo = {i}

\* One of the start futures of join_all reaches the engine; once join_all
\* is done the results are collected: the tick failed if any start failed.
schedule_start(i, ups) ==
    /\ process = "running"
    /\ sched.pc = "start"
    /\ i \in sched.todo
    /\ \E up \in ups :
        LET name == sched.targets[i]
            r == start(up, containers, name)
            failed == sched.failed \/ r.res = "Err"
            results == [k \in DOMAIN sched.results \cup {i} |->
                            IF k = i THEN r.res ELSE sched.results[k]]
            ev == [op |-> "start", by |-> "scheduler", tick |-> "-",
                   name |-> name, res |-> r.res,
                   target |-> IF name \in Names THEN containers[name]
                              ELSE NoContainer,
                   targets |-> sched.targets, results |-> results]
        IN  /\ containers' = r.cs
            /\ IF join_all_done(sched.todo, i, failed)
               THEN SchedEndTick(~failed, ev)
               ELSE /\ sched' = [sched EXCEPT !.todo = @ \ {i},
                                              !.results = results,
                                              !.failed = failed]
                    /\ last' = ev
    /\ UNCHANGED <<config, clock, inflight, posted, cleaner, process,
                   metrics, main>>

----------------------------------------------------------------------------
(* cleaner.rs *)

\* The engine writes finished_at as an RFC 3339 string, fraction included.
FormatTime(t) == <<"rfc3339", timestamp(t), t - timestamp(t) * SubSecond>>

\* DateTime::parse_from_rfc3339(&finished_at).ok(): the instant, or None.
parse_from_rfc3339(str) ==
    IF Len(str) = 3 /\ str[1] = "rfc3339"
    THEN Some(Instant(str[2], str[3]))
    ELSE None

\* Every ContainerInspectResponse the engine may give for container c named
\* n: name, state and state.finished_at are Options, finished_at a string.
InspectResponses(c, n) ==
    { [name |-> nm, state |-> st] :
        nm \in { Some(EngineName(n)), None },
        st \in { None,
                 Some([finished_at |-> None]),
                 Some([finished_at |-> Some(<<"garbage">>)]),
                 Some([finished_at |-> Some(FormatTime(c.finished))]) } }

clean_removal_at_threshold(resp, threshold) ==
    IF /\ IsSome(resp.state)
       /\ IsSome(Unwrap(resp.state).finished_at)
       /\ IsSome(parse_from_rfc3339(Unwrap(Unwrap(resp.state).finished_at)))
       /\ timestamp(Unwrap(parse_from_rfc3339(Unwrap(Unwrap(resp.state).finished_at))))
            <= threshold
       /\ IsSome(resp.name)
    THEN { strip_prefix(Unwrap(resp.name)) }
    ELSE {}

\* Utc::now().checked_sub_signed(seconds(max_age)).timestamp(): the whole
\* seconds of now - max_age.
finished_at_threshold(now, max_age) == timestamp(now - max_age * SubSecond)

clean_removal_unparsed_is_old(resp, threshold) ==
    IF /\ IsSome(resp.state)
       /\ IsSome(resp.name)
       /\ \/ ~IsSome(Unwrap(resp.state).finished_at)
          \/ ~IsSome(parse_from_rfc3339(Unwrap(Unwrap(resp.state).finished_at)))
          \/ timestamp(Unwrap(parse_from_rfc3339(Unwrap(Unwrap(resp.state).finished_at))))
               < threshold
    THEN { strip_prefix(Unwrap(resp.name)) }
    ELSE {}

\* The second join_all of clean, for one inspected container: the name
\* remove is called with, if the container passes the three filters.
clean_removal(resp, threshold) ==
    IF /\ IsSome(resp.state)
       /\ IsSome(Unwrap(resp.state).finished_at)
       /\ IsSome(parse_from_rfc3339(Unwrap(Unwrap(resp.state).finished_at)))
       /\ timestamp(Unwrap(parse_from_rfc3339(Unwrap(Unwrap(resp.state).finished_at))))
            < threshold
       /\ IsSome(resp.name)
    THEN { strip_prefix(Unwrap(resp.name)) }
    ELSE {}

\* const MAX_ERRORS: u8 = 5 (cleaner.rs)
cleaner_MAX_ERRORS == 5

cleaner_cycle_no_reset(errors, ok) ==
    IF ok THEN [errors |-> errors, ret |-> "loop"]
    ELSE IF errors + 1 >= cleaner_MAX_ERRORS
    THEN [errors |-> errors + 1, ret |-> "Err"]
    ELSE [errors |-> errors + 1, ret |-> "loop"]

\* cleaner::cycle after one tick with result ok.
cleaner_cycle(errors, ok) ==
    IF ok THEN [errors |-> 0, ret |-> "loop"]
    ELSE IF errors + 1 >= cleaner_MAX_ERRORS
    THEN [errors |-> errors + 1, ret |-> "Err"]
    ELSE [errors |-> errors + 1, ret |-> "loop"]

CleanerIdle(errors, streak) ==
    [pc |-> "idle", errors |-> errors, streak |-> streak, now |-> 0,
     threshold |-> 0, targets |-> << >>, todo |-> {}, removes |-> {}, failed |-> FALSE]

CleanEndTick(ok, ev) ==
    LET c == cleaner_cycle(cleaner.errors, ok)
        streak == IF ok THEN 0 ELSE cleaner.streak + 1
    IN  /\ cleaner' = IF c.ret = "Err"
                      THEN [CleanerIdle(c.errors, streak) EXCEPT !.pc = "returned"]
                      ELSE CleanerIdle(c.errors, streak)
        /\ last' = [ev EXCEPT !.tick = IF ok THEN "Ok" ELSE "Err"]

\* interval.tick(), then clean from the threshold to the creation of the
\* inspect futures.
clean_list(ups, fracs) ==
    /\ process = "running"
    /\ CleanerLaunched
    /\ cleaner.pc = "idle"
    /\ \E up \in ups, frac \in fracs :
        LET now == Instant(clock, frac)
            threshold == finished_at_threshold(now, Unwrap(config.keep_exited_for))
        IN  IF ~up
            THEN CleanEndTick(FALSE, [op |-> "get_exited", by |-> "cleaner",
                                      tick |-> "-", up |-> FALSE])
            ELSE \E exited \in get_exited(containers, Namespace) :
                LET targets == JobNames(exited)
                    ev == [op |-> "get_exited", by |-> "cleaner", tick |-> "-",
                           up |-> TRUE, threshold |-> threshold,
                           exited |-> exited, targets |-> targets]
                IN  IF targets = << >>
                    THEN CleanEndTick(TRUE, ev)
                    ELSE /\ cleaner' = [cleaner EXCEPT !.pc = "inspect",
                                                       !.now = now,
                                                       !.threshold = threshold,
                                                       !.targets = targets,
                                                       !.todo = DOMAIN targets]
                         /\ last' = ev
    /\ UNCHANGED <<config, clock, containers, inflight, posted, sched,
                   process, metrics, main>>

\* A variant of the collection that drops the failed inspects and goes on
\* with the containers that were inspected.
inspected_drops_failures(failed, removes) ==
    IF removes # {} THEN "remove"
    ELSE IF failed THEN "Err" ELSE "Ok"

\* The collection of the inspect results, collect::<Result<_>>()? : the
\* first Err returns from clean; else the remove futures are created from
\* the containers that pass the filters, if any.
inspected(failed, removes) ==
    IF failed THEN "Err"
    ELSE IF removes = {} THEN "Ok" ELSE "remove"

\* One of the inspect futures reaches the engine.  After the last one the
\* results are collected: any failed inspect fails the tick before a remove
\* is issued; else the containers that pass the filters are to be removed.
clean_inspect(i, ups) ==
    /\ process = "running"
    /\ cleaner.pc = "inspect"
    /\ i \in cleaner.todo
    /\ \E up \in ups :
        LET name == cleaner.targets[i]
            r == inspect(up, containers, name)
            failed == cleaner.failed \/ r.res = "Err"
        IN  \E resp \in IF r.res = "Ok" THEN InspectResponses(r.container, name)
                        ELSE { [name |-> None, state |-> None] } :
            LET removes == IF r.res = "Ok"
                           THEN cleaner.removes \cup clean_removal(resp, cleaner.threshold)
                           ELSE cleaner.removes
                ev == [op |-> "inspect", by |-> "cleaner", tick |-> "-",
                       name |-> name, res |-> r.res, resp |-> resp,
                       now |-> cleaner.now, threshold |-> cleaner.threshold,
                       before |-> cleaner.removes, removed |-> removes,
                       listed |-> cleaner.targets,
                       target |-> IF name \in Names THEN containers[name]
                                  ELSE NoContainer]
            IN  IF cleaner.todo # {i}
                THEN /\ cleaner' = [cleaner EXCEPT !.todo = @ \ {i},
                                                   !.removes = removes,
                                                   !.failed = failed]
                     /\ last' = ev
                ELSE IF inspected(failed, removes) = "Err" THEN CleanEndTick(FALSE, ev)
                ELSE IF inspected(failed, removes) = "Ok" THEN CleanEndTick(TRUE, ev)
                ELSE /\ cleaner' = [cleaner EXCEPT !.pc = "remove",
                                                   !.todo = {},
                                                   !.removes = removes]
                     /\ last' = ev
    /\ UNCHANGED <<config, clock, containers, inflight, posted, sched,
                   process, metrics, main>>

\* One of the remove futures reaches the engine; after the last one the
\* tick failed if any remove failed.
clean_remove(name, ups) ==
    /\ process = "running"
    /\ cleaner.pc = "remove"
    /\ name \in cleaner.removes
    /\ \E up \in ups :
        LET r == remove(up, containers, name)
            failed == cleaner.failed \/ r.res = "Err"
            ev == [op |-> "remove", by |-> "cleaner", tick |-> "-",
                   name |-> name, res |-> r.res,
                   left |-> cleaner.removes \ {name},
                   target |-> IF name \in Names THEN containers[name]
                              ELSE NoContainer]
        IN  /\ containers' = r.cs
            /\ posted' = IF r.res = "Ok" THEN posted \ {name} ELSE posted
            /\ IF cleaner.removes = {name}
               THEN CleanEndTick(~failed, ev)
               ELSE /\ cleaner' = [cleaner EXCEPT !.removes = @ \ {name},
                                                  !.failed = failed]
                    /\ last' = ev
    /\ UNCHANGED <<config, clock, inflight, sched, process, metrics, main>>

----------------------------------------------------------------------------
(* metrics_service.rs: the metrics pump *)

\* struct Labels { namespace, action: Option, status: Option }
Labels(namespace, action, status) ==
    [namespace |-> namespace, action |-> action, status |-> status]

\* Family::get_or_create(labels).inc_by(k): the counter is created at 0 when
\* the family does not hold it yet.
inc_by(jobs, labels, k) ==
    [l \in DOMAIN jobs \cup {labels} |->
        IF l = labels
        THEN (IF l \in DOMAIN jobs THEN jobs[l] ELSE 0) + k
        ELSE jobs[l]]

\* The jobs family before any counter was created.
EmptyFamily == [l \in {} |-> 0]

seed_start_counts_pending(jobs, namespace, active, created) ==
    inc_by(inc_by(jobs, Labels(namespace, Some("create"), None), active + created),
           Labels(namespace, Some("start"), None), active + created)

\* The seeding of run: create by active + created, start by active.
seed(jobs, namespace, active, created) ==
    inc_by(inc_by(jobs, Labels(namespace, Some("create"), None), active + created),
           Labels(namespace, Some("start"), None), active)

\* Events of the label-scoped stream: action is an Option, actor is an
\* Option, its attributes are an Option, and the map may hold exitCode.
NoAttributes == [k \in {} |-> ""]

EventActors ==
    { None,
      Some([attributes |-> None]),
      Some([attributes |-> Some(NoAttributes)]),
      Some([attributes |-> Some([k \in {"image"} |-> "x"])]),
      Some([attributes |-> Some([k \in {"exitCode"} |-> "0"])]),
      Some([attributes |-> Some([k \in {"exitCode", "image"} |->
                                    IF k = "exitCode" THEN "1" ELSE "x"])]) }

Events ==
    { [action |-> a, actor |-> r] :
        a \in { None, Some("create"), Some("die") }, r \in EventActors }

\* A few events: a create without actor and a die with an exit code.
FewEvents ==
    { [action |-> Some("create"), actor |-> None],
      [action |-> Some("die"),
       actor |-> Some([attributes |-> Some([k \in {"exitCode"} |-> "0"])])] }

event_labels_status_dropped(namespace, event) ==
    Labels(namespace, event.action, None)

\* The labels of the counter an event increments: its action, and the
\* exitCode attribute of its actor if there is one.
event_labels(namespace, event) ==
    Labels(namespace, event.action,
           IF /\ IsSome(event.actor)
              /\ IsSome(Unwrap(event.actor).attributes)
              /\ "exitCode" \in DOMAIN Unwrap(Unwrap(event.actor).attributes)
           THEN Some(Unwrap(Unwrap(event.actor).attributes)["exitCode"])
           ELSE None)

\* run before its first engine call: the family is registered and empty.
MetricsStart ==
    [pc |-> "seed", jobs |-> EmptyFamily, active |-> None, created |-> None,
     failed |-> FALSE, consumed |-> 0, result |-> "-"]

MetricsJoined_tolerant(m) ==
    IF ~(IsSome(m.active) /\ IsSome(m.created)) THEN m
    ELSE [m EXCEPT !.pc = "stream",
                   !.jobs = seed(m.jobs, Namespace, Unwrap(m.active), Unwrap(m.created))]

\* The two calls of tokio::join! are answered; run goes on once both are:
\* an Err of either returns it, else the counters are seeded and the
\* event stream is opened.
MetricsJoined(m) ==
    IF ~(IsSome(m.active) /\ IsSome(m.created)) THEN m
    ELSE IF m.failed THEN [m EXCEPT !.pc = "returned", !.result = "Err"]
    ELSE [m EXCEPT !.pc = "stream",
                   !.jobs = seed(m.jobs, Namespace, Unwrap(m.active), Unwrap(m.created))]

\* docker::count_active of the join! is answered.
metrics_count(ups) ==
    /\ process = "running"
    /\ MetricsLaunched
    /\ metrics.pc = "seed"
    /\ metrics.active = None
    /\ \E up \in ups :
        LET active == IF up THEN count_active(containers, Namespace) ELSE 0
        IN  /\ metrics' = MetricsJoined([metrics EXCEPT !.active = Some(active),
                                                        !.failed = @ \/ ~up])
            /\ last' = [op |-> "count_active", by |-> "metrics", tick |-> "-",
                        up |-> up, active |-> active]
    /\ UNCHANGED <<config, clock, containers, inflight, posted, sched, cleaner,
                   process, main>>

\* docker::get_pending of the join! is answered.
metrics_list(ups) ==
    /\ process = "running"
    /\ MetricsLaunched
    /\ metrics.pc = "seed"
    /\ metrics.created = None
    /\ \E up \in ups :
        \E pending \in IF up THEN get_pending(containers, Namespace) ELSE { << >> } :
            /\ metrics' = MetricsJoined([metrics EXCEPT !.created = Some(Len(pending)),
                                                            !.failed = @ \/ ~up])
            /\ last' = [op |-> "get_pending", by |-> "metrics", tick |-> "-",
                        up |-> up, pending |-> pending]
    /\ UNCHANGED <<config, clock, containers, inflight, posted, sched, cleaner,
                   process, main>>

\* The stream delivers an event and try_for_each increments its counter.
metrics_event(events) ==
    /\ process = "running"
    /\ metrics.pc = "stream"
    /\ metrics.consumed < MaxEvents
    /\ \E event \in events :
        /\ metrics' = [metrics EXCEPT
                          !.jobs = inc_by(@, event_labels(Namespace, event), 1),
                          !.consumed = @ + 1]
        /\ last' = [op |-> "event", by |-> "metrics", event |-> event,
                    before |-> metrics.jobs]
    /\ UNCHANGED <<config, clock, containers, inflight, posted, sched, cleaner,
                   process, main>>

\* The stream fails (the engine closes it with an error, or job_events
\* fails to open it) or ends: run returns the Err, or Ok.
metrics_stream_closes(results) ==
    /\ process = "running"
    /\ metrics.pc = "stream"
    /\ \E result \in results :
        /\ metrics' = [metrics EXCEPT !.pc = "returned", !.result = result]
        /\ last' = [op |-> "stream_closed", by |-> "metrics", result |-> result]
    /\ UNCHANGED <<config, clock, containers, inflight, posted, sched, cleaner,
                   process, main>>

----------------------------------------------------------------------------
(* main.rs: the supervisor *)

\* The HTTP server ends normally (a termination signal, after the requests
\* in flight were answered): api.run() returns Ok.
ServerStop ==
    /\ process = "running"
    /\ main.api = "serving"
    /\ \A n \in Names : inflight[n] = 0
    /\ main' = [main EXCEPT !.api = "stopped"]
    /\ last' = [op |-> "server_stopped"]
    /\ UNCHANGED <<config, clock, containers, inflight, posted, sched, cleaner,
                   process, metrics>>

select_loop_error_dropped(api, m, s, c) ==
    { o \in { [process |-> "exited", error |-> "none"],
              [process |-> "failed", error |-> "metrics"] } :
        \/ o.error = "none" /\ api = "stopped"
        \/ o.error = "none" /\ m.pc = "returned" /\ m.result = "Ok"
        \/ o.error = "metrics" /\ m.pc = "returned" /\ m.result = "Err"
        \/ o.error = "none" /\ s.pc = "returned"
        \/ o.error = "none" /\ c.pc = "returned" }

\* The branches of the nested tokio::select! that are ready, each with the
\* outcome of main when select takes it: the server's Ok, the pump's Ok or
\* Err, the Err of a loop.  select polls its branches in random order.
select(api, m, s, c) ==
    { o \in { [process |-> "exited", error |-> "none"],
              [process |-> "failed", error |-> "metrics"],
              [process |-> "failed", error |-> "scheduler"],
              [process |-> "failed", error |-> "cleaner"] } :
        \/ o.error = "none" /\ api = "stopped"
        \/ o.error = "none" /\ m.pc = "returned" /\ m.result = "Ok"
        \/ o.error = "metrics" /\ m.pc = "returned" /\ m.result = "Err"
        \/ o.error = "scheduler" /\ s.pc = "returned"
        \/ o.error = "cleaner" /\ c.pc = "returned" }

\* main returns from the select with the outcome of the branch taken; the
\* runtime shuts down and every other task is dropped.
main_select ==
    /\ process = "running"
    /\ \E o \in select(main.api, metrics, sched, cleaner) :
        /\ process' = o.process
        /\ main' = [main EXCEPT !.error = o.error]
        /\ last' = [op |-> "main_returned", outcome |-> o]
    /\ UNCHANGED <<config, clock, containers, inflight, posted, sched, cleaner,
                   metrics>>

----------------------------------------------------------------------------
(* The container engine and whatever else talks to it *)

\* A second of wall-clock time passes.
ClockTick ==
    /\ clock < MaxClock
    /\ clock' = clock + 1
    /\ last' = NoEvent
    /\ UNCHANGED <<config, containers, inflight, posted, sched, cleaner,
                   process, metrics, main>>

\* The main process of a running container ends.
ContainerExit(n, fracs) ==
    /\ Exists(containers, n)
    /\ containers[n].status = "running"
    /\ \E frac \in fracs :
        containers' = [containers EXCEPT ![n].status = "exited",
                                         ![n].finished = Instant(clock, frac)]
    /\ last' = NoEvent
    /\ UNCHANGED <<config, clock, inflight, posted, sched, cleaner, process,
                   metrics, main>>

\* The engine's restart policy takes a running container through
\* restarting and back to running.
ContainerRestart(n) ==
    /\ Exists(containers, n)
    /\ containers[n].status \in ActiveStatuses
    /\ containers' = [containers EXCEPT ![n].status =
                        IF @ = "running" THEN "restarting" ELSE "running"]
    /\ last' = NoEvent
    /\ UNCHANGED <<config, clock, inflight, posted, sched, cleaner, process,
                   metrics, main>>

\* Labels of containers that are not this instance's: no grouping label, or
\* the grouping label of another namespace.
ForeignLabels == { EmptyLabels, [k \in {JOB_LABEL_KEY} |-> OtherNamespace] }

\* Someone else creates a container that is not this instance's.
ExternalCreate(n, labels) ==
    /\ EngineCreate(containers, n, [labels |-> Some(labels)], clock).code = 201
    /\ containers' = EngineCreate(containers, n, [labels |-> Some(labels)], clock).cs
    /\ last' = NoEvent
    /\ UNCHANGED <<config, clock, inflight, posted, sched, cleaner, process,
                   metrics, main>>

\* Someone else starts a container of theirs.
ExternalStart(n) ==
    /\ Exists(containers, n)
    /\ ~HasJobLabel(containers[n], Namespace)
    /\ containers[n].status \in {"created", "exited"}
    /\ containers' = start(TRUE, containers, n).cs
    /\ last' = NoEvent
    /\ UNCHANGED <<config, clock, inflight, posted, sched, cleaner, process,
                   metrics, main>>

\* Someone else removes a container, theirs or not (docker rm -f).
ExternalRemove(n) ==
    /\ Exists(containers, n)
    /\ containers' = [containers EXCEPT ![n] = NoContainer]
    /\ posted' = posted \ {n}
    /\ last' = NoEvent
    /\ UNCHANGED <<config, clock, inflight, sched, cleaner, process, metrics,
                   main>>

----------------------------------------------------------------------------
(* Specifications *)

InitWith(quotas, ages) ==
    /\ config \in [max_concurrent : quotas, keep_exited_for : ages]
    /\ clock = 0
    /\ containers = [n \in Names |-> NoContainer]
    /\ inflight = [n \in Names |-> 0]
    /\ posted = {}
    /\ sched = SchedIdle(0, 0)
    /\ cleaner = CleanerIdle(0, 0)
    /\ process = "running"
    /\ metrics = MetricsStart
    /\ main = [api |-> "serving", error |-> "none"]
    /\ last = NoEvent

\* Whether the engine answers a call: always, or sometimes not.
Reliable == { TRUE }

Unreliable == BOOLEAN

\* POST /job with the filter outputs in `outputs`, GET /job/{id} for `ids`.
Dispatcher(outputs, ids, ups) ==
    \/ \E out \in outputs : create_job(out, ups)
    \/ \E n \in Names : create_job_start(n, ups)
    \/ \E n \in ids : get_job(n, ups)

Scheduler(ups) ==
    \/ schedule_count(ups)
    \/ schedule_list(ups)
    \/ \E i \in 1..Cardinality(Names) : schedule_start(i, ups)

Cleaner(ups, fracs) ==
    \/ clean_list(ups, fracs)
    \/ \E i \in 1..Cardinality(Names) : clean_inspect(i, ups)
    \/ \E n \in Names : clean_remove(n, ups)

Engine(fracs) ==
    \/ ClockTick
    \/ \E n \in Names : ContainerExit(n, fracs)
    \/ \E n \in Names : ContainerRestart(n)

Outside(names) ==
    \/ \E n \in names, l \in ForeignLabels : ExternalCreate(n, l)
    \/ \E n \in names : ExternalStart(n)
    \/ \E n \in names : ExternalRemove(n)

\* Quota mode with the scheduler alone (--max-concurrent 1 or 2, no
\* --keep-exited-for), an engine that answers every call, and no one else
\* at the engine.
InitSched == InitWith({ Some(1), Some(2) }, { None })

NextSched ==
    \/ \E out \in PlainManifests : create_job(out, Reliable)
    \/ Scheduler(Reliable)
    \/ Engine(Whole)

SpecSched == InitSched /\ [][NextSched]_vars

\* Both loops (--max-concurrent 1 --keep-exited-for 0) over one job name and
\* an engine that may fail any call.
LoopNames == { <<"a">> }

InitLoops == InitWith({ Some(1) }, { Some(0) })

NextLoops ==
    \/ \E out \in { Manifest(n, None) : n \in LoopNames } : create_job(out, Unreliable)
    \/ Scheduler(Unreliable)
    \/ Cleaner(Unreliable, Whole)
    \/ Engine(Whole)
    \/ main_select

SpecLoops == InitLoops /\ [][NextLoops]_vars

\* The dispatcher alone, in unlimited mode (no --max-concurrent) and in quota
\* mode without loops (--max-concurrent 0), with every filter outcome, an
\* engine that may fail any call, and others creating, starting and removing
\* containers of their own under the same names.
DispatchNames == { <<"a">> }

InitDispatch == InitWith({ None, Some(0) }, { None })

NextDispatch ==
    \/ Dispatcher(FilterFailures \cup { m \in LabelledManifests : m.Name \in DispatchNames },
                  DispatchNames, Unreliable)
    \/ Engine(Whole)
    \/ Outside(DispatchNames)

SpecDispatch == InitDispatch /\ [][NextDispatch]_vars

\* Every task of the system beside others at the engine: unlimited mode with
\* the cleaner, and quota mode with both loops.
IsolationNames == { <<"a">> }

InitIsolation == InitWith({ None, Some(1) }, { Some(0) })

NextIsolation ==
    \/ Dispatcher({ Manifest(n, None) : n \in IsolationNames }, IsolationNames, Reliable)
    \/ Scheduler(Reliable)
    \/ Cleaner(Reliable, Whole)
    \/ Engine(Whole)
    \/ Outside(IsolationNames)

SpecIsolation == InitIsolation /\ [][NextIsolation]_vars

\* Unlimited mode with the cleaner (--keep-exited-for 0, no
\* --max-concurrent) over two job names: containers exit and the cleaner
\* takes its threshold at any fraction of a second; the engine answers
\* every call.
CleanNames == { <<"a">>, <<"b">> }

InitClean == InitWith({ None }, { Some(0) })

NextClean ==
    \/ \E out \in { Manifest(n, None) : n \in CleanNames } : create_job(out, Reliable)
    \/ \E n \in CleanNames : create_job_start(n, Reliable)
    \/ Cleaner(Reliable, Fractions)
    \/ Engine(Fractions)

SpecClean == InitClean /\ [][NextClean]_vars

\* Every startup mode: --max-concurrent unset, 0 or 1 with --keep-exited-for
\* unset or 0, over one job name and an engine that may fail the calls of
\* the dispatcher.
ModeNames == { <<"a">> }

InitModes == InitWith({ None, Some(0), Some(1) }, { None, Some(0) })

NextModes ==
    \/ Dispatcher({ Manifest(n, None) : n \in ModeNames }, ModeNames, Unreliable)
    \/ Scheduler(Reliable)
    \/ Cleaner(Reliable, Whole)
    \/ metrics_count(Reliable)
    \/ metrics_list(Reliable)
    \/ Engine(Whole)

SpecModes == InitModes /\ [][NextModes]_vars

\* The supervisor: both loops (--max-concurrent 1 --keep-exited-for 0), the
\* HTTP server and the metrics pump over one job name whose container, once
\* started, keeps running (so the cleaner lists no exited container), an
\* engine that may fail the calls of the loops and of the pump and close
\* the event stream,
\* a server that may be told to stop, and main's select.  The runtime polls
\* main once a branch of its select is ready.
SupervisorNames == { <<"a">> }

InitSupervisor == InitWith({ Some(1) }, { Some(0) })

NextSupervisor ==
    \/ \E out \in { Manifest(n, None) : n \in SupervisorNames } : create_job(out, Reliable)
    \/ \E n \in SupervisorNames : get_job(n, Reliable)
    \/ Scheduler(Unreliable)
    \/ clean_list(Unreliable, Whole)
    \/ metrics_count(Unreliable)
    \/ metrics_list(Unreliable)
    \/ metrics_stream_closes({"Err", "Ok"})
    \/ ServerStop
    \/ main_select

SpecSupervisor ==
    InitSupervisor /\ [][NextSupervisor]_vars /\ WF_vars(main_select)

\* The metrics pump beside the dispatcher and the scheduler in quota mode
\* (--max-concurrent 1, no --keep-exited-for) over two job names: the pump
\* seeds its counters from whatever the engine holds when its two calls are
\* answered, either of which may fail, then consumes events.
MetricsNames == { <<"a">>, <<"b">> }

InitMetrics == InitWith({ Some(1) }, { None })

NextMetrics ==
    \/ \E out \in { Manifest(n, None) : n \in MetricsNames } : create_job(out, Reliable)
    \/ Scheduler(Reliable)
    \/ metrics_count(Unreliable)
    \/ metrics_list(Unreliable)
    \/ metrics_event(Events)
    \/ \E n \in MetricsNames : ContainerExit(n, Whole)

SpecMetrics == InitMetrics /\ [][NextMetrics]_vars

\* One tick of the scheduler with room for two (--max-concurrent 2, no
\* --keep-exited-for) over two job names and an engine that may fail any
\* call of the scheduler.
TickNames == { <<"a">>, <<"b">> }

InitTick == InitWith({ Some(2) }, { None })

NextTick ==
    \/ \E out \in { Manifest(n, None) : n \in TickNames } : create_job(out, Reliable)
    \/ Scheduler(Unreliable)
    \/ \E n \in TickNames : ContainerExit(n, Whole)

SpecTick == InitTick /\ [][NextTick]_vars

\* Admission in quota mode (--max-concurrent 1, no --keep-exited-for) over
\* two job names and an engine that answers every call: the interval keeps
\* ticking and a tick under way goes on, and a running container eventually
\* exits.
AdmissionNames == { <<"a">>, <<"b">> }

InitAdmission == InitWith({ Some(1) }, { None })

NextAdmission ==
    \/ \E out \in { Manifest(n, None) : n \in AdmissionNames } : create_job(out, Reliable)
    \/ Scheduler(Reliable)
    \/ ClockTick
    \/ \E n \in AdmissionNames : ContainerExit(n, Whole)

SpecAdmission ==
    /\ InitAdmission
    /\ [][NextAdmission]_vars
    /\ WF_vars(Scheduler(Reliable))
    /\ \A n \in AdmissionNames : WF_vars(ContainerExit(n, Whole))

\* The head of the pending list: quota mode with one or two slots
\* (--max-concurrent 1 or 2, no --keep-exited-for) over two job names
\* created in the same second or in different ones, and an engine that may
\* fail any call of the scheduler.  The interval keeps ticking until cycle
\* returns.
HeadNames == { <<"a">>, <<"b">> }

InitHead == InitWith({ Some(1), Some(2) }, { None })

NextHead ==
    \/ \E out \in { Manifest(n, None) : n \in HeadNames } : create_job(out, Reliable)
    \/ Scheduler(Unreliable)
    \/ ClockTick
    \/ \E n \in HeadNames : ContainerExit(n, Whole)

SpecHead == InitHead /\ [][NextHead]_vars /\ WF_vars(Scheduler(Unreliable))

\* The cleaner over an engine that may fail any call, in unlimited mode,
\* with an outside client that may remove one of the containers at any
\* moment.
InspectNames == { <<"a">>, <<"b">> }

\* The containers the outside client may remove.
InspectOutsideNames == { <<"a">> }

InitInspect == InitWith({ None }, { Some(0) })

NextInspect ==
    \/ \E out \in { Manifest(n, None) : n \in InspectNames } : create_job(out, Reliable)
    \/ \E n \in InspectNames : create_job_start(n, Reliable)
    \/ Cleaner(Unreliable, Whole)
    \/ ClockTick
    \/ \E n \in InspectNames : ContainerExit(n, Whole)
    \/ \E n \in InspectOutsideNames : ExternalRemove(n)

SpecInspect == InitInspect /\ [][NextInspect]_vars

----------------------------------------------------------------------------
(* Properties *)

\* The containers of this instance that are running or restarting.
OwnedActive ==
    { n \in Names : /\ containers[n].status \in {"running", "restarting"}
                    /\ JOB_LABEL_KEY \in DOMAIN containers[n].labels
                    /\ containers[n].labels[JOB_LABEL_KEY] = Namespace }

OwnedPending ==
    { n \in Names : /\ containers[n].status = "created"
                    /\ JOB_LABEL_KEY \in DOMAIN containers[n].labels
                    /\ containers[n].labels[JOB_LABEL_KEY] = Namespace }

QuotaSet == IsSome(config.max_concurrent) /\ Unwrap(config.max_concurrent) > 0

\* C1: in quota mode (max_concurrent = N > 0) the number of owned containers
\* in status running or restarting never exceeds N, whatever the interleaving
\* of create requests, scheduler ticks and container exits and restarts,
\* while no one else starts containers.
C1_QuotaNeverExceeded ==
    QuotaSet => Cardinality(OwnedActive) <= Unwrap(config.max_concurrent)

\* C1 witness: the quota is reached, a job is pending, and a tick has just
\* ended at count_active without starting it.
C1_QuotaReached ==
    /\ QuotaSet
    /\ Cardinality(OwnedActive) = Unwrap(config.max_concurrent)
    /\ OwnedPending # {}
    /\ last.op = "count_active"
    /\ last.tick = "Ok"

\* The scheduler tick has just listed the pending jobs.
Listed_pending == last.op = "get_pending" /\ last.up

\* max_concurrent - active of the tick that has just listed.
FreeSlots == Unwrap(config.max_concurrent) - last.active

HasName(summary) ==
    /\ summary.names # None
    /\ summary.names # Some(<< >>)

\* The positions of the pending list the tick calls start for.
Attempted ==
    { i \in DOMAIN last.pending :
        \E t \in DOMAIN last.targets : last.targets[t] = last.pending[i].id }

\* A tick that finds no free slot ends at count_active and starts nothing.
NoSlotNoStart ==
    (last.op = "count_active" /\ last.up
        /\ Unwrap(config.max_concurrent) <= last.active)
    => (sched.pc = "idle" /\ sched.targets = << >> /\ last.tick = "Ok")

\* C2 as claimed: a tick whose listings succeed issues exactly
\* min(max_concurrent - active, |pending|) start attempts when
\* max_concurrent - active is positive and none otherwise, for every pending
\* list, also one with summaries without names.
C2_AttemptsAreMin ==
    /\ NoSlotNoStart
    /\ Listed_pending =>
        Len(last.targets) = Min(FreeSlots, Len(last.pending))

\* C2 as amended: the tick issues one start attempt for each summary among
\* the first min(max_concurrent - active, |pending|) of the pending list
\* whose names field holds a name, and none for the others; none at all when
\* max_concurrent - active is not positive.
C2_AttemptsAreNamedTaken ==
    /\ NoSlotNoStart
    /\ Listed_pending =>
        /\ FreeSlots > 0
        /\ Len(last.targets) =
             Cardinality({ i \in 1..Min(FreeSlots, Len(last.pending)) :
                             HasName(last.pending[i]) })
        /\ Len(last.targets) <= Min(FreeSlots, Len(last.pending))

\* C2 witness: a tick takes a summary without a name and one with a name.
C2_NamelessTaken ==
    /\ Listed_pending
    /\ \E i \in 1..Min(FreeSlots, Len(last.pending)) : ~HasName(last.pending[i])
    /\ Len(last.targets) > 0

\* C3 as claimed: the containers a tick attempts to start form a prefix of
\* the pending list sorted by created: no pending container left unattempted
\* was created strictly before an attempted one.
C3_AttemptedIsPrefix ==
    Listed_pending =>
        \A i, j \in DOMAIN last.pending :
            (j \in Attempted /\ i \notin Attempted)
            => ~(last.pending[i].created < last.pending[j].created)

\* C3 as amended: the pending list is ascending in created, the attempted
\* containers are those with a name among a prefix of it, and no pending
\* container with a name that is left unattempted was created strictly
\* before an attempted one.
C3_NamedAttemptedOldestFirst ==
    Listed_pending =>
        /\ \A i, j \in DOMAIN last.pending :
            i < j => last.pending[i].created <= last.pending[j].created
        /\ Attempted = { i \in 1..Min(FreeSlots, Len(last.pending)) :
                           HasName(last.pending[i]) }
        /\ \A i, j \in DOMAIN last.pending :
            (j \in Attempted /\ i \notin Attempted /\ HasName(last.pending[i]))
            => ~(last.pending[i].created < last.pending[j].created)

\* C3 witness: a tick attempts an older container and leaves a newer one
\* that has a name unattempted.
C3_NewerLeftPending ==
    /\ Listed_pending
    /\ \E i, j \in DOMAIN last.pending :
        /\ j \in Attempted
        /\ i \notin Attempted
        /\ HasName(last.pending[i])
        /\ last.pending[j].created < last.pending[i].created

\* The step just taken ended a tick of the loop `by`.
TickEnded(by) ==
    /\ last.op \in {"count_active", "get_pending", "start",
                    "get_exited", "inspect", "remove"}
    /\ last.by = by
    /\ last.tick # "-"

\* C4: each loop returns its error exactly when 5 consecutive ticks have
\* failed, at the fifth of them: a loop has returned iff its run of failed
\* ticks is 5 long, no run grows longer, and main fails only once a loop
\* returned.
C4_ReturnsAtFifthFailure ==
    /\ sched.streak \in 0..5
    /\ cleaner.streak \in 0..5
    /\ (sched.pc = "returned") <=> (sched.streak = 5)
    /\ (cleaner.pc = "returned") <=> (cleaner.streak = 5)
    /\ (process = "failed") => (sched.pc = "returned" \/ cleaner.pc = "returned")

\* C4 witness: the scheduler returned at its fifth consecutive failure while
\* the cleaner, four failures into a run, goes on.
C4_SchedulerReturned ==
    /\ sched.pc = "returned"
    /\ TickEnded("scheduler")
    /\ cleaner.streak = 4
    /\ cleaner.pc # "returned"

\* C5: in each loop the error counter equals the number of failed ticks since
\* the last successful one (or the start of the loop), lies in 0..4 whenever
\* a tick starts, and is 0 right after a successful tick.
C5_ErrorCounter ==
    /\ sched.pc # "returned" => (sched.errors = sched.streak /\ sched.errors \in 0..4)
    /\ cleaner.pc # "returned" => (cleaner.errors = cleaner.streak /\ cleaner.errors \in 0..4)
    /\ (TickEnded("scheduler") /\ last.tick = "Ok") => sched.errors = 0
    /\ (TickEnded("cleaner") /\ last.tick = "Ok") => cleaner.errors = 0

\* C5 witness: a cleaner tick has just succeeded while the scheduler stands
\* at four consecutive failures.
C5_ResetBesideFour ==
    /\ TickEnded("cleaner")
    /\ last.tick = "Ok"
    /\ cleaner.errors = 0
    /\ sched.errors = 4
    /\ sched.pc = "idle"

\* The step just taken answered a POST /job whose manifest was valid.
PostAnswered == last.op = "create_job" /\ last.filter = "ok"

\* C6 as claimed: of the POST /job requests for one Name, the request the
\* engine accepts answers 201 and every request that meets the name conflict
\* answers 200.
C6_AcceptedIs201 ==
    PostAnswered =>
        /\ last.create = "Some" => last.status = 201
        /\ last.create = "None" => last.status = 200

\* C6 as amended: a request answers 201 only if the engine accepted its
\* create and 200 only if it met the name conflict, both with
\* JobSummary{id = Name}; the engine accepts iff no container holds the name;
\* a request that met the conflict left the container as it was; the
\* accepted request answers 201 unless its inline start fails, and then 502
\* without a body; and a name answered 201 or 200 has a container until it
\* is removed.
C6_IdempotentCreate ==
    /\ PostAnswered =>
        /\ last.status = 201 => last.create = "Some"
        /\ last.status = 200 => last.create = "None"
        /\ last.create = "None" =>
            /\ last.status = 200
            /\ last.id = Some(last.name)
            /\ Exists(containers, last.name)
            /\ containers[last.name] = last.held
        /\ (last.create = "Some" /\ last.start # "Err") =>
            /\ last.status = 201
            /\ last.id = Some(last.name)
            /\ Exists(containers, last.name)
        /\ (last.create = "Some" /\ last.start = "Err") =>
            /\ last.status = 502
            /\ last.id = None
        /\ (last.start = "-" /\ last.up) =>
            (last.create = "None" <=> last.held.status # "absent")
    /\ (last.op = "create" /\ last.up) => last.held.status = "absent"
    /\ \A n \in posted : Exists(containers, n)

\* C6 witness: a POST for a name this instance's container already holds
\* answers 200.
C6_SecondRequest ==
    /\ PostAnswered
    /\ last.status = 200
    /\ last.held.status # "absent"
    /\ JOB_LABEL_KEY \in DOMAIN last.held.labels
    /\ last.held.labels[JOB_LABEL_KEY] = Namespace

\* The step just taken answered a POST /job with an error of the filter.
FilterFailed == last.op = "create_job" /\ last.filter # "ok"

C8_GetAfterCreate ==
    (last.op = "get_job" /\ last.up /\ last.asked)
    => (last.status = 200 /\ last.id = Some(last.name))

\* The step just taken created a container through the dispatcher.
DispatcherCreated ==
    /\ last.op \in {"create_job", "create"}
    /\ last.filter = "ok"
    /\ last.create = "Some"
    /\ last.start = "-"

GivenLabels == IF last.given = None THEN EmptyLabels ELSE last.given[1]

\* C9: a container created through the dispatcher carries the grouping label
\* with the configured namespace whatever labels the manifest supplied: a
\* value supplied for that key is overwritten, every other label is kept,
\* and no label is added.
C9_GroupingLabelForced ==
    DispatcherCreated =>
        LET labels == containers[last.name].labels
        IN  /\ JOB_LABEL_KEY \in DOMAIN labels
            /\ labels[JOB_LABEL_KEY] = Namespace
            /\ DOMAIN labels = DOMAIN GivenLabels \cup {JOB_LABEL_KEY}
            /\ \A k \in DOMAIN GivenLabels \ {JOB_LABEL_KEY} :
                labels[k] = GivenLabels[k]

\* C9 witness: a container is created from a manifest that brings a value
\* of its own for the grouping key and another label.
C9_CallerSuppliedKey ==
    /\ DispatcherCreated
    /\ JOB_LABEL_KEY \in DOMAIN GivenLabels
    /\ GivenLabels[JOB_LABEL_KEY] = OtherNamespace
    /\ AppKey \in DOMAIN GivenLabels

\* The step just taken was a by-name engine call of this instance that the
\* engine carried out: the inline start of create_job, a start of the
\* scheduler, or an inspect or a remove of the cleaner.
ActedByName ==
    \/ /\ last.op \in {"start", "inspect", "remove"}
       /\ last.res = "Ok"
    \/ /\ last.op = "create_job"
       /\ last.filter = "ok"
       /\ last.start = "Ok"

\* C10: whenever the system starts, inspects or removes a container, that
\* container carries the grouping label with the configured namespace, also
\* when the container was removed and re-created by someone else between
\* the listing and the by-name call.
C10_ActsOnOwnedOnly ==
    ActedByName => HasJobLabel(last.target, Namespace)

\* The step just taken was an inspect of the cleaner that the engine
\* answered.
Inspected == last.op = "inspect" /\ last.res = "Ok"

\* now - max_age of the tick the inspect belongs to, as an instant.
AgeLimit == last.now - Unwrap(config.keep_exited_for) * SubSecond

\* The inspect response carries the name, the state and the finished_at of
\* the container as the engine holds them.
CompleteResponse ==
    /\ last.resp.name = Some(EngineName(last.name))
    /\ last.resp.state = Some([finished_at |-> Some(FormatTime(last.target.finished))])

\* C11 as claimed: in a cleaner tick remove is invoked for exactly the owned
\* exited containers whose finished_at strictly precedes now - max_age taken
\* at tick start.
C11_RemovesExactlyOlder ==
    Inspected =>
        (last.name \in last.removed
         <=> /\ HasJobLabel(last.target, Namespace)
             /\ last.target.status = "exited"
             /\ last.target.finished < AgeLimit)

\* C11 as amended: in a cleaner tick whose get_exited and inspect calls
\* succeed, remove is invoked for exactly the listed names whose inspect
\* response carries a name, a state and a finished_at that parses and whose
\* whole seconds strictly precede the whole seconds of now - max_age taken
\* at tick start.  So a container that finished at or after now - max_age is
\* never removed, one that finished a full second or more before it and
\* has a complete response is removed, and the tick ends only when remove
\* was invoked for each of them.
C11_RemovesOlderInWholeSeconds ==
    /\ Inspected =>
        /\ last.name \in last.removed
            <=> /\ CompleteResponse
                /\ timestamp(last.target.finished) < timestamp(AgeLimit)
        /\ last.name \in last.removed => last.target.finished < AgeLimit
        /\ (CompleteResponse /\ last.target.finished + SubSecond <= AgeLimit)
            => last.name \in last.removed
        /\ \A n \in last.removed : \E i \in DOMAIN last.listed : last.listed[i] = n
        /\ (last.tick = "-" /\ cleaner.pc = "remove") => cleaner.removes = last.removed
        /\ last.tick # "-" => last.removed = {}
    /\ cleaner.pc = "remove" => cleaner.removes # {}
    /\ last.op = "remove" =>
        /\ last.tick # "-" <=> last.left = {}
        /\ last.tick = "-" => (cleaner.pc = "remove" /\ cleaner.removes = last.left)
        /\ last.res = "Ok" => ~Exists(containers, last.name)

\* C11 witness: in a tick that removes one container, another one that
\* finished before now - max_age, but within the same second, is kept.
C11_SameSecondKept ==
    /\ Inspected
    /\ CompleteResponse
    /\ last.removed # {}
    /\ last.name \notin last.removed
    /\ last.target.finished < AgeLimit

\* The cleaner tick has just listed the exited containers.
Listed_exited == last.op = "get_exited" /\ last.up

\* C12: an exited container whose names, state or finished_at is missing or
\* unparseable is skipped: the tick does not fail for it, remove is not
\* invoked for it, and the containers that qualified before it stay to be
\* removed in the same tick.
C12_SkipsWithoutFailing ==
    /\ Listed_exited =>
        /\ last.tick # "Err"
        /\ Len(last.targets) =
             Cardinality({ i \in DOMAIN last.exited : HasName(last.exited[i]) })
        /\ \A i \in DOMAIN last.exited :
            HasName(last.exited[i])
            <=> \E t \in DOMAIN last.targets : last.targets[t] = last.exited[i].id
    /\ (Inspected /\ ~CompleteResponse) =>
        /\ last.tick # "Err"
        /\ last.name \notin last.removed
        /\ last.removed = last.before
        /\ last.before # {} =>
            \/ cleaner.pc = "inspect" /\ cleaner.removes = last.before
            \/ cleaner.pc = "remove" /\ cleaner.removes = last.before
    /\ (last.op = "remove" /\ last.tick # "-") => last.left = {}

\* C12 witness: the last inspect of a tick gives a response without a
\* parseable finished_at while another container of the tick qualified, and
\* the tick goes on to remove that one.
C12_SkippedBesideRemoved ==
    /\ Inspected
    /\ last.resp.name # None
    /\ last.resp.state # None
    /\ last.resp.state # Some([finished_at |-> Some(FormatTime(last.target.finished))])
    /\ last.before # {}
    /\ cleaner.pc = "remove"

ZeroQuota == config.max_concurrent = Some(0)

\* The step just taken was an engine call of the scheduler loop.
SchedulerActed ==
    /\ last.op \in {"count_active", "get_pending", "start"}
    /\ last.by = "scheduler"

\* The step just taken was an engine call of the cleaner loop.
CleanerActed == last.op \in {"get_exited", "inspect", "remove"}

\* The step just taken was a start call of the system, or a request going
\* on to its inline start.
StartIssued ==
    \/ last.op \in {"start", "create"}
    \/ last.op = "create_job" /\ last.filter = "ok" /\ last.start # "-"

\* C13 as claimed: with max_concurrent = 0, whatever keep_exited_for is,
\* neither the scheduler loop nor the cleaner loop runs and no start call is
\* issued.
C13_ZeroQuotaNoLoops ==
    ZeroQuota => (~SchedulerActed /\ ~CleanerActed /\ ~StartIssued)

\* C13 as amended: with max_concurrent = 0 the scheduler loop is not
\* launched and no start call is issued, by a loop or by the dispatcher; the
\* cleaner loop is launched iff keep_exited_for is set.
C13_ZeroQuotaNoStart ==
    ZeroQuota =>
        /\ ~SchedulerLaunched
        /\ ~containers_can_start
        /\ CleanerLaunched <=> IsSome(config.keep_exited_for)
        /\ ~SchedulerActed
        /\ ~StartIssued
        /\ CleanerActed => IsSome(config.keep_exited_for)
        /\ \A n \in Names :
            Exists(containers, n) => containers[n].status = "created"

\* C13 witness: with max_concurrent = 0 and keep_exited_for set the cleaner
\* ticks while a created container waits.
C13_CleanerTicksAtZeroQuota ==
    /\ ZeroQuota
    /\ last.op = "get_exited"
    /\ \E n \in Names : containers[n].status = "created"

QuotaUnset == ~IsSome(config.max_concurrent)

\* C14: over every (max_concurrent, keep_exited_for) the scheduler is
\* launched iff max_concurrent is set and positive, the dispatcher starts
\* containers inline iff max_concurrent is unset, no cleaner is launched
\* when keep_exited_for is unset, and the HTTP server and the metrics pump
\* run in every mode.
C14_ModeSelection ==
    /\ SchedulerLaunched <=> QuotaSet
    /\ SchedulerActed => QuotaSet
    /\ containers_can_start <=> QuotaUnset
    /\ StartIssued /\ ~SchedulerActed => QuotaUnset
    /\ (PostAnswered /\ last.status = 201) => (last.start = "Ok" <=> QuotaUnset)
    /\ ~IsSome(config.keep_exited_for) => (~CleanerLaunched /\ ~CleanerActed)
    /\ ServerLaunched
    /\ MetricsLaunched

\* C14 witness: in quota mode without a cleaner the scheduler starts a
\* container the dispatcher left created, beside the seeded metrics pump.
C14_SchedulerOnlyMode ==
    /\ QuotaSet
    /\ ~IsSome(config.keep_exited_for)
    /\ SchedulerActed
    /\ last.op = "start"
    /\ last.res = "Ok"
    /\ metrics.pc = "stream"

\* The step being taken answers a POST /job with 201.
Answers201 == PostAnswered' /\ last'.status = Created

\* C15: in unlimited mode every 201 to POST /job comes after the create of
\* the request and a successful start of the container it created, which is
\* running at the response; in quota mode (max_concurrent set) the
\* dispatcher never goes on to a start, a 201 leaves the container created,
\* and a created container leaves that status only by a successful start of
\* the scheduler.
C15_StartBeforeCreated ==
    [][ /\ (QuotaUnset /\ Answers201) =>
            /\ last'.create = "Some"
            /\ last'.start = "Ok"
            /\ inflight[last'.name] > 0
            /\ HasJobLabel(containers[last'.name], Namespace)
            /\ containers[last'.name].status = "created"
            /\ containers'[last'.name].status = "running"
        /\ ~QuotaUnset =>
            /\ last'.op # "create"
            /\ PostAnswered' => last'.start = "-"
            /\ Answers201 =>
                /\ HasJobLabel(containers'[last'.name], Namespace)
                /\ containers'[last'.name].status = "created"
            /\ \A n \in Names :
                (containers[n].status = "created"
                    /\ containers'[n].status # "created") =>
                    /\ last'.op = "start"
                    /\ last'.by = "scheduler"
                    /\ last'.name = n
                    /\ last'.res = "Ok"
      ]_vars

\* C15 witness: in unlimited mode a request answers 201 after its inline
\* start and its container runs.
C15_StartedInline ==
    /\ QuotaUnset
    /\ PostAnswered
    /\ last.status = Created
    /\ last.start = "Ok"
    /\ containers[last.name].status = "running"

\* A loop has returned its error: cycle counted MAX_ERRORS failed ticks.
LoopReturned(l) == l.pc = "returned"

\* C16 as claimed: once the process has terminated, a loop that had returned
\* its error made it terminate with a non-zero outcome carrying that error.
C16_LoopErrorDecides ==
    process # "running" =>
        /\ LoopReturned(sched) => (process = "failed" /\ main.error = "scheduler")
        /\ LoopReturned(cleaner) => (process = "failed" /\ main.error = "cleaner")

\* An awaited task other than loop l has completed.
OthersCompleted(l) ==
    \/ main.api = "stopped"
    \/ metrics.pc = "returned"
    \/ l # "scheduler" /\ LoopReturned(sched)
    \/ l # "cleaner" /\ LoopReturned(cleaner)

\* C16 as amended: once a loop has returned its error the process
\* terminates at main's next poll, with the outcome of one of the awaited
\* tasks that have completed by then: the error of a loop or of the metrics
\* pump that returned one, or success when the server stopped or the pump
\* ended; it is the loop's error when no other awaited task has completed.
\* After the process has terminated only the engine moves: no task calls it
\* and no request is served.
C16_SupervisorOutcome ==
    /\ [](process = "failed" =>
            /\ main.error \in {"metrics", "scheduler", "cleaner"}
            /\ main.error = "scheduler" => LoopReturned(sched)
            /\ main.error = "cleaner" => LoopReturned(cleaner)
            /\ main.error = "metrics" =>
                (metrics.pc = "returned" /\ metrics.result = "Err"))
    /\ [](process = "exited" =>
            /\ main.error = "none"
            /\ \/ main.api = "stopped"
               \/ metrics.pc = "returned" /\ metrics.result = "Ok")
    /\ []((process # "running" /\ LoopReturned(sched)
                /\ ~OthersCompleted("scheduler")) =>
            (process = "failed" /\ main.error = "scheduler"))
    /\ []((process # "running" /\ LoopReturned(cleaner)
                /\ ~OthersCompleted("cleaner")) =>
            (process = "failed" /\ main.error = "cleaner"))
    /\ [][process # "running" =>
            /\ last' = NoEvent
            /\ UNCHANGED <<inflight, posted, sched, cleaner, process, metrics,
                           main>>]_vars
    /\ (LoopReturned(sched) \/ LoopReturned(cleaner)) ~> (process # "running")

\* C16 witness: the scheduler loop returned its error while the server was
\* serving and the pump streaming, and the process failed with that error.
C16_SchedulerErrorCarried ==
    /\ process = "failed"
    /\ main.error = "scheduler"
    /\ LoopReturned(sched)
    /\ ~OthersCompleted("scheduler")
    /\ last.op = "main_returned"

\* The counters of the seeding step.
CreateCounter == Labels(Namespace, Some("create"), None)

StartCounter == Labels(Namespace, Some("start"), None)

\* C17: the pump's active and pending_count are what count_active and
\* get_pending return at its start; until both are answered, and when either
\* failed, no counter is touched; once the pump has seeded and before it
\* consumes an event the family holds exactly jobs{create, status absent} =
\* active + pending_count and jobs{start, status absent} = active.
C17_Seeding ==
    /\ (last.op = "count_active" /\ last.by = "metrics" /\ last.up) =>
            /\ metrics.active = Some(last.active)
            /\ last.active = Cardinality(OwnedActive)
    /\ (last.op = "get_pending" /\ last.by = "metrics" /\ last.up) =>
            /\ metrics.created = Some(Len(last.pending))
            /\ Len(last.pending) = Cardinality(OwnedPending)
    /\ (metrics.pc = "seed" \/ metrics.failed) => metrics.jobs = EmptyFamily
    /\ (metrics.pc = "stream" /\ metrics.consumed = 0) =>
            /\ DOMAIN metrics.jobs = {CreateCounter, StartCounter}
            /\ metrics.jobs[CreateCounter] =
                    Unwrap(metrics.active) + Unwrap(metrics.created)
            /\ metrics.jobs[StartCounter] = Unwrap(metrics.active)

\* C17 witness: the pump has seeded with one container running and one
\* created, and has consumed no event.
C17_SeededWithBoth ==
    /\ metrics.pc = "stream"
    /\ metrics.consumed = 0
    /\ metrics.active = Some(1)
    /\ metrics.created = Some(1)
    /\ metrics.jobs[CreateCounter] = 2

\* The sum of the counters of family f over the labels in S.
RECURSIVE SumOver(_, _)
SumOver(f, S) ==
    IF S = {} THEN 0
    ELSE LET l == CHOOSE x \in S : TRUE
         IN  f[l] + SumOver(f, S \ {l})

\* The exitCode attribute of an event's actor if it is present, else absent.
ExitCode(event) ==
    IF event.actor = None THEN None
    ELSE IF Unwrap(event.actor).attributes = None THEN None
    ELSE IF "exitCode" \notin DOMAIN Unwrap(Unwrap(event.actor).attributes)
    THEN None
    ELSE Some(Unwrap(Unwrap(event.actor).attributes)["exitCode"])

\* C18: each event the stream delivers increments by exactly 1 the counter
\* labelled (namespace, the event's action, its exitCode attribute if present
\* else absent), creating it at need, and leaves every other counter as it
\* was; no step removes or decreases a counter; while the pump streams the
\* sum of the counters is the seeded total, 2 * active + pending_count, plus
\* the number of events consumed.
C18_EventMapping ==
    /\ [][ /\ last'.op = "event" =>
                LET l == Labels(Namespace, last'.event.action, ExitCode(last'.event))
                IN  /\ DOMAIN metrics'.jobs = DOMAIN metrics.jobs \cup {l}
                    /\ metrics'.jobs[l] =
                          (IF l \in DOMAIN metrics.jobs THEN metrics.jobs[l] ELSE 0) + 1
                    /\ \A k \in DOMAIN metrics.jobs \ {l} :
                          metrics'.jobs[k] = metrics.jobs[k]
                    /\ metrics'.consumed = metrics.consumed + 1
            /\ \A k \in DOMAIN metrics.jobs :
                /\ k \in DOMAIN metrics'.jobs
                /\ metrics'.jobs[k] >= metrics.jobs[k]
          ]_vars
    /\ [](metrics.pc = "stream" =>
            SumOver(metrics.jobs, DOMAIN metrics.jobs) =
                2 * Unwrap(metrics.active) + Unwrap(metrics.created)
                    + metrics.consumed)

\* C18 witness: after a seeding that counted a container, the second event
\* consumed carries exitCode 1 and creates the counter of its labels.
C18_ExitCodeCounted ==
    /\ last.op = "event"
    /\ metrics.consumed = 2
    /\ Unwrap(metrics.active) + Unwrap(metrics.created) > 0
    /\ Labels(Namespace, Some("die"), Some("1")) \in DOMAIN metrics.jobs
    /\ metrics.jobs[Labels(Namespace, Some("die"), Some("1"))] = 1

\* C19: while the start attempts of a tick are under way the tick does not
\* end, whatever failed so far; at the end of a tick that reached them every
\* target has its result; and the tick is a failure iff count_active
\* failed, get_pending failed or at least one start attempt failed.
C19_AllStartsAwaited ==
    /\ sched.pc = "start" =>
            /\ sched.todo # {}
            /\ sched.todo = DOMAIN sched.targets \ DOMAIN sched.results
            /\ sched.failed <=> \E k \in DOMAIN sched.results : sched.results[k] = "Err"
    /\ TickEnded("scheduler") =>
            /\ last.op = "start" => DOMAIN last.results = DOMAIN last.targets
            /\ last.tick = "Err" <=>
                    \/ last.op = "count_active" /\ ~last.up
                    \/ last.op = "get_pending" /\ ~last.up
                    \/ /\ last.op = "start"
                       /\ \E k \in DOMAIN last.results : last.results[k] = "Err"

\* C19 witness: a tick of two start attempts ends failed with the attempt
\* that completed last succeeding, the other one having failed before it.
C19_StartedAfterFailure ==
    /\ TickEnded("scheduler")
    /\ last.op = "start"
    /\ Len(last.targets) = 2
    /\ last.res = "Ok"
    /\ last.tick = "Err"

\* Container n waits in status created.
Waiting(n) == containers[n].status = "created"

\* C20 as claimed: with ticks that keep occurring, calls that succeed and
\* running containers that exit, every owned container in status created is
\* eventually started.
C20_EveryCreatedStarted ==
    \A n \in AdmissionNames : Waiting(n) ~> ~Waiting(n)

\* The listing just answered shows every pending container with a name.
ListedWithNames ==
    last.op = "get_pending" =>
        \A i \in DOMAIN last.pending : HasName(last.pending[i])

\* The scheduler has just listed a non-empty pending list with a free slot.
ListedWithRoom ==
    /\ Listed_pending
    /\ last.by = "scheduler"
    /\ FreeSlots > 0
    /\ last.pending # << >>

\* C20 as amended: under the same assumptions every owned container in
\* status created is eventually started provided the listings show every
\* pending container with a name; at a tick with active < max_concurrent
\* and a pending container, if the first summary of the sorted pending list
\* has a name, that container is an oldest pending one, start is called for
\* it first in that tick, and it runs once that call has succeeded.  A
\* summary without a name takes a free slot without a start.
C20_NamedCreatedStarted ==
    /\ []ListedWithNames => (\A n \in AdmissionNames : Waiting(n) ~> ~Waiting(n))
    /\ []((ListedWithRoom /\ HasName(last.pending[1])) =>
            /\ last.targets # << >>
            /\ last.targets[1] = last.pending[1].id
            /\ last.targets[1] \in OwnedPending
            /\ \A n \in OwnedPending :
                    containers[last.targets[1]].created <= containers[n].created)
    /\ []((ListedWithRoom /\ ~HasName(last.pending[1])) =>
            Len(last.targets) < FreeSlots)
    /\ []((last.op = "start" /\ last.by = "scheduler" /\ last.res = "Ok") =>
            containers[last.name].status = "running")

\* C20 witness: with one slot, the second container is started by a tick
\* after the first one, started before it, has exited.
C20_StartedAfterExit ==
    /\ last.op = "start"
    /\ last.by = "scheduler"
    /\ last.res = "Ok"
    /\ \E n \in AdmissionNames :
        /\ n # last.name
        /\ containers[n].status = "exited"
        /\ containers[n].created < containers[last.name].created

\* The start of container n by the scheduler has just failed.
StartFailed(n) ==
    /\ last.op = "start"
    /\ last.by = "scheduler"
    /\ last.name = n
    /\ last.res = "Err"

\* The listing just answered has container n among the summaries taken.
Taken(n) ==
    \E i \in 1..Min(FreeSlots, Len(last.pending)) : last.pending[i].id = n

\* C21 as claimed: a pending container whose start failed stays created and
\* is among the taken ones at every later tick with free capacity.
C21_FailedSelectedAgain ==
    \A n \in HeadNames :
        [](StartFailed(n) =>
            /\ Waiting(n)
            /\ []((ListedWithRoom /\ Waiting(n)) => Taken(n)))

\* Another pending container was created in the same second as n.
SameSecond(n) ==
    \E m \in OwnedPending \ {n} : containers[m].created = containers[n].created

\* The pending containers created in an earlier second than n.
OlderPending(n) ==
    { m \in OwnedPending : containers[m].created < containers[n].created }

\* C21 as amended: a pending container whose start failed stays created and
\* is among the taken ones at every later tick with free capacity, provided
\* no other pending container was created in the same second (the order
\* within a second is arbitrary); with k free slots a start is attempted
\* only for containers with fewer than k pending containers older than
\* them, so a newer one is not started while k older ones wait; and the
\* fifth failed tick in a row makes the scheduler return.
C21_HeadOfLine ==
    /\ \A n \in HeadNames :
        [](StartFailed(n) =>
            /\ Waiting(n)
            /\ []((ListedWithRoom /\ Waiting(n) /\ ~SameSecond(n)) => Taken(n)))
    /\ [](ListedWithRoom =>
            \A i \in DOMAIN last.targets :
                Cardinality(OlderPending(last.targets[i])) < FreeSlots)
    /\ []((TickEnded("scheduler") /\ last.op = "start" /\ last.tick = "Err") =>
            /\ sched.streak \in 1..5
            /\ sched.pc = "returned" <=> sched.streak = 5)

\* C21 witness: the scheduler returns at the fifth failed start in a row of
\* the older container while the newer one still waits.
C21_BlockedUntilReturn ==
    /\ sched.pc = "returned"
    /\ StartFailed(<<"a">>)
    /\ Waiting(<<"a">>)
    /\ Waiting(<<"b">>)
    /\ containers[<<"a">>].created < containers[<<"b">>].created

\* Container n is left in status created by a request whose inline start
\* failed: no request for n is between its create and its start.
LeftCreated(n) == Waiting(n) /\ inflight[n] = 0

PumpReturned(r) == metrics.pc = "returned" /\ metrics.result = r

\* No awaited task other than the pump has completed.
PumpAlone ==
    /\ main.api = "serving"
    /\ ~LoopReturned(sched)
    /\ ~LoopReturned(cleaner)

\* C23 as claimed, its last part: once the process has terminated, a normal
\* end of the event stream made it end with a success outcome.
C23_StreamEndIsSuccess ==
    (process # "running" /\ PumpReturned("Ok")) => process = "exited"

\* C23 as amended: a failed count_active or get_pending of the seeding makes
\* the pump return an error once both calls are answered, without touching
\* a counter, and an error on the event stream makes it return that error;
\* a normal end of the stream makes it return Ok.  Once the pump has
\* returned the process terminates at main's next poll, after which no
\* task acts; when no other awaited task has completed the outcome is the
\* pump's: failure with its error, or success after a normal end.
C23_PumpEndsProcess ==
    /\ []((last.op \in {"count_active", "get_pending"} /\ last.by = "metrics"
                /\ ~last.up) =>
            /\ metrics.failed
            /\ metrics.jobs = EmptyFamily
            /\ metrics.pc \in {"seed", "returned"})
    /\ []((metrics.failed /\ IsSome(metrics.active) /\ IsSome(metrics.created)) =>
            PumpReturned("Err"))
    /\ [](last.op = "stream_closed" =>
            /\ last.result \in {"Err", "Ok"}
            /\ PumpReturned(last.result))
    /\ (metrics.pc = "returned") ~> (process # "running")
    /\ []((process # "running" /\ PumpAlone /\ PumpReturned("Err")) =>
            (process = "failed" /\ main.error = "metrics"))
    /\ []((process # "running" /\ PumpAlone /\ PumpReturned("Ok")) =>
            (process = "exited" /\ main.error = "none"))
    /\ [][(process # "running" /\ metrics.pc = "returned") =>
            UNCHANGED <<containers, inflight, posted, sched, cleaner, process,
                        metrics, main, last>>]_vars

\* C23 witness: a failed call of the seeding made the pump return its
\* error and the process failed with it while the server was serving and
\* both loops were running.
C23_SeedingErrorEndsProcess ==
    /\ process = "failed"
    /\ main.error = "metrics"
    /\ PumpAlone
    /\ PumpReturned("Err")
    /\ metrics.consumed = 0
    /\ metrics.jobs = EmptyFamily
    /\ last.op = "main_returned"

\* The cleaner moved in the step: one of its calls was answered.
CleanerStep == cleaner' # cleaner

\* An inspect of the current tick has failed, in an earlier step or in
\* this one.
InspectFailedInTick ==
    /\ cleaner.pc = "inspect"
    /\ CleanerStep
    /\ cleaner.failed \/ last'.res = "Err"

\* A remove of the current tick has failed, in an earlier step or in this
\* one.
RemoveFailedInTick == cleaner.failed \/ last'.res = "Err"

\* The tick ended in the step as a failure counted toward the cap of
\* cleaner_MAX_ERRORS consecutive errors.
CountedAsFailure ==
    /\ last'.tick = "Err"
    /\ cleaner'.errors = cleaner.errors + 1
    /\ cleaner'.streak = cleaner.streak + 1
    /\ cleaner'.pc = "returned" <=> cleaner'.errors = cleaner_MAX_ERRORS

\* C24: once an inspect of a tick has failed, the remaining inspects are
\* still answered but the tick never reaches its removes: no container is
\* removed by the cleaner in that tick, whatever qualified, and the tick
\* ends as a failure counted toward the cap.  The cleaner calls remove only
\* in the remove phase, which a tick enters with no failed inspect.  In
\* the remove phase every remove of the tick is issued, a failed one
\* leaving the others to be issued, and the tick ends after the last one,
\* as a counted failure if and only if one of them failed.
C24_InspectAllOrNothing ==
    /\ [][InspectFailedInTick =>
            /\ last'.op = "inspect"
            /\ cleaner'.pc # "remove"
            /\ containers' = containers
            /\ cleaner'.pc = "inspect" => (cleaner'.failed /\ last'.tick = "-")
            /\ cleaner'.pc # "inspect" => (Cardinality(cleaner.todo) = 1
                                            /\ CountedAsFailure)]_vars
    /\ [][(CleanerStep /\ last'.op = "remove") => cleaner.pc = "remove"]_vars
    /\ [][(CleanerStep /\ cleaner'.pc = "remove" /\ cleaner.pc # "remove") =>
            /\ cleaner.pc = "inspect"
            /\ ~cleaner.failed
            /\ last'.res = "Ok"
            /\ ~cleaner'.failed]_vars
    /\ [][(cleaner.pc = "remove" /\ CleanerStep) =>
            /\ last'.op = "remove"
            /\ last'.name \in cleaner.removes
            /\ last'.left = cleaner.removes \ {last'.name}
            /\ last'.left # {} =>
                    /\ cleaner'.pc = "remove"
                    /\ cleaner'.removes = last'.left
                    /\ cleaner'.failed <=> RemoveFailedInTick
                    /\ last'.tick = "-"
            /\ last'.left = {} =>
                    /\ cleaner'.pc # "remove"
                    /\ IF RemoveFailedInTick THEN CountedAsFailure
                       ELSE last'.tick = "Ok" /\ cleaner'.errors = 0]_vars

\* C24 witness: a tick ended as a failure at its last inspect, with an
\* inspect failed and another listed container inspected and found old
\* enough to be removed; that container is still there.
C24_QualifyingKeptAfterFailedInspect ==
    /\ last.op = "inspect"
    /\ last.by = "cleaner"
    /\ last.tick = "Err"
    /\ last.removed # {}
    /\ \A n \in last.removed : Exists(containers, n)
    /\ cleaner.errors > 0

====
